---- MODULE Spec2Model ----
(***************************************************************************)
(* Model of the query-classification-and-dispatch workflow                 *)
(* (app/agents/orchestrator.py), the four specialist agents                *)
(* (app/agents/*_agent.py) and the HTTP endpoints (app/main.py).           *)
(*                                                                         *)
(* Python str values that the code trims, re-cases, searches or            *)
(* concatenates are sequences of one-character strings, so that strip(),   *)
(* upper(), lower(), `in` and f-string concatenation are computed.         *)
(* Python None is the record None; a dict is a function over its keys.     *)
(***************************************************************************)
EXTENDS Integers, Sequences, FiniteSets, TLC

VARIABLES
    pc,          \* position of the request being served
    endpoint,    \* path of the POST endpoint serving the request
    request,     \* the QueryRequest body: [query, domain]
    state,       \* the AgentState threaded through the graph run
    executed,    \* graph nodes executed in this run, in order
    llm_text,    \* raw content returned by the classifier's completion call
    aux,         \* handler local: context_docs / mesh_results / fairness_metrics
    aux_failed,  \* the auxiliary producer or search raised in this request
    result,      \* dict returned by Orchestrator.invoke or <Agent>.invoke
    exc,         \* exception propagating to (or caught at) the endpoint
    http,        \* response sent to the caller
    node,        \* graph node the runner executes next
    thrown,      \* what an external collaborator raised last: [src, e]
    metrics,     \* argument of FairnessAgent._assess_risk_level (pure check)
    risk_level,  \* its return value
    calls,       \* external calls issued for this request, in order: [kind, by]
    heap,        \* AgentState objects of the concurrent invocations, by reference
    inv          \* the concurrent invocations of the shared orchestrator

vars == <<pc, endpoint, request, state, executed, llm_text, aux, aux_failed,
          result, exc, http, node, thrown, metrics, risk_level, calls, heap, inv>>

-----------------------------------------------------------------------------
(* Bounds of the model *)

\* longest generated completion text for the classifier
MaxRespLen == 4
\* number of distinct protected-class keys in a generated ratios mapping
MaxGroups == 2

\* concurrent calls of Orchestrator.invoke
NumInvocations == 2

-----------------------------------------------------------------------------
(* Python values *)

None == [NoneType |-> TRUE]
EmptyDict == <<>>
NoExc == [type |-> "none", msg |-> ""]

\* a value passed where pydantic checks its type: a list or a dict
PyList(items) == [py |-> "list", items |-> items]
PyDict(items) == [py |-> "dict", items |-> items]

\* how a call ends: with a value, or with an exception leaving it
Return(v) == [ok |-> TRUE, value |-> v]
Raise(e) == [ok |-> FALSE, e |-> e]

LowerCase == <<"a", "b", "c", "d", "e", "f", "g", "h", "i", "j", "k", "l", "m", "n", "o", "p", "q", "r", "s", "t", "u", "v", "w", "x", "y", "z">>
UpperCase == <<"A", "B", "C", "D", "E", "F", "G", "H", "I", "J", "K", "L", "M", "N", "O", "P", "Q", "R", "S", "T", "U", "V", "W", "X", "Y", "Z">>

\* str.upper() on one character
UpperChar(c) ==
    IF \E i \in 1..Len(LowerCase) : LowerCase[i] = c
    THEN UpperCase[CHOOSE i \in 1..Len(LowerCase) : LowerCase[i] = c]
    ELSE c

\* str.lower() on one character
LowerChar(c) ==
    IF \E i \in 1..Len(UpperCase) : UpperCase[i] = c
    THEN LowerCase[CHOOSE i \in 1..Len(UpperCase) : UpperCase[i] = c]
    ELSE c

\* str.upper()
Upper(s) == [i \in 1..Len(s) |-> UpperChar(s[i])]

\* str.lower()
Lower(s) == [i \in 1..Len(s) |-> LowerChar(s[i])]

\* characters str.strip() removes
IsSpace(c) == c \in {" ", "\n", "\t", "\r"}

RECURSIVE LStrip(_)
LStrip(s) ==
    IF s # <<>> /\ IsSpace(Head(s)) THEN LStrip(Tail(s)) ELSE s

RECURSIVE RStrip(_)
RStrip(s) ==
    IF s # <<>> /\ IsSpace(s[Len(s)]) THEN RStrip(SubSeq(s, 1, Len(s) - 1)) ELSE s

\* str.strip()
Strip(s) == RStrip(LStrip(s))

\* `sub in s` for two str values
Contains(s, sub) ==
    \E i \in 0..(Len(s) - Len(sub)) : SubSeq(s, i + 1, i + Len(sub)) = sub

\* `x in lst` for a list
InList(x, lst) == \E i \in 1..Len(lst) : lst[i] = x

\* all sequences over S of length at most n
SeqsUpTo(S, n) == UNION {[1..k -> S] : k \in 0..n}

-----------------------------------------------------------------------------
(* Orchestrator: labels, node names, placeholder answers *)

REGULATORY == <<"R", "E", "G", "U", "L", "A", "T", "O", "R", "Y">>
CAPITAL == <<"C", "A", "P", "I", "T", "A", "L">>
FAIRNESS == <<"F", "A", "I", "R", "N", "E", "S", "S">>
OPS == <<"O", "P", "S">>

valid_domains == <<REGULATORY, CAPITAL, FAIRNESS, OPS>>

n_orchestrator == <<"o", "r", "c", "h", "e", "s", "t", "r", "a", "t", "o", "r">>
n_regulatory == <<"r", "e", "g", "u", "l", "a", "t", "o", "r", "y">>
n_capital == <<"c", "a", "p", "i", "t", "a", "l">>
n_fairness == <<"f", "a", "i", "r", "n", "e", "s", "s">>
n_ops == <<"o", "p", "s">>
n_END == <<"_", "_", "e", "n", "d", "_", "_">>

RegulatoryPrefix == <<"R", "e", "g", "u", "l", "a", "t", "o", "r", "y", " ", "a", "g", "e", "n", "t", " ", "p", "r", "o", "c", "e", "s", "s", "i", "n", "g", ":", " ">>
CapitalPrefix == <<"C", "a", "p", "i", "t", "a", "l", " ", "a", "g", "e", "n", "t", " ", "p", "r", "o", "c", "e", "s", "s", "i", "n", "g", ":", " ">>
FairnessPrefix == <<"F", "a", "i", "r", "n", "e", "s", "s", " ", "a", "g", "e", "n", "t", " ", "p", "r", "o", "c", "e", "s", "s", "i", "n", "g", ":", " ">>
OpsPrefix == <<"O", "p", "s", " ", "a", "g", "e", "n", "t", " ", "p", "r", "o", "c", "e", "s", "s", "i", "n", "g", ":", " ">>

-----------------------------------------------------------------------------
(* Inputs: what the caller and the external collaborators can supply *)

\* characters of the generated completion texts
RespAlphabet == {"O", "P", "S", "p", " "}

\* completion texts taken from the labels and near-misses of them
FixedResponses ==
    { REGULATORY, CAPITAL, FAIRNESS, OPS,
      <<"c", "a", "p", "i", "t", "a", "l">>,
      <<" ", "C", "a", "p", "i", "t", "a", "l", "\n">>,
      <<" ", "c", "a", "p", "i", "t", "a", "l", "\n">>,
      <<"C", "A", "P", "I", "T", "A", "L", " ", "O", "P", "S">>,
      <<"F", "a", "i", "r", "n", "e", "s", "s", ".">>,
      <<"U", "N", "K", "N", "O", "W", "N">> }

\* response.content of the classifier's completion call
Responses == SeqsUpTo(RespAlphabet, MaxRespLen) \cup FixedResponses

\* request.query
Queries ==
    { <<>>,
      <<"B", "a", "s", "e", "l">>,
      <<"C", "a", "l", "c", "u", "l", "a", "t", "e", " ", "C", "E", "C", "L">>,
      <<"d", "i", "s", "p", "a", "r", "a", "t", "e", " ", "i", "m", "p", "a", "c", "t">>,
      <<"d", "r", "i", "f", "t">> }

\* request.domain (Optional[str]): <<>> is None, <<d>> is the string d
RequestDomains == { <<>>, <<n_ops>> }

\* response.content of a specialist's completion call
Answers == { <<>>, <<"o", "k">>, <<"R", "W", "A">> }

\* errors of the completion service
LLMErrors ==
    { [type |-> "APITimeoutError", msg |-> "Request timed out."],
      [type |-> "AuthenticationError", msg |-> "Incorrect API key provided"] }

\* error of the vector index
SearchError == [type |-> "RuntimeError", msg |-> "similarity search failed"]

\* error inside an auxiliary producer's try block
ProducerError == [type |-> "ConnectionError", msg |-> "mesh unreachable"]

\* error of an agent constructor (configuration, embedding of the knowledge base)
ConstructError == [type |-> "KeyError", msg |-> "'agents'"]

\* pydantic's error for a field of the wrong type
ValidationError == [type |-> "ValidationError", msg |-> "context: value is not a valid dict"]

\* str(e)
StrOf(e) == e.msg

\* documents the vector index can return
SearchResults == { <<>>, <<"doc1">>, <<"doc1", "doc2", "doc3">> }

\* major version of the installed pydantic (the source pins none)
PydanticVersions == {1, 2}

Endpoints == {"/query", "/query/regulatory", "/query/capital", "/query/fairness", "/query/ops"}

-----------------------------------------------------------------------------
(* Orchestrator *)

\* AgentState(messages=[], next="", query=query, domain="", context={}, answer="")
initial_state(query) ==
    [messages |-> <<>>, next |-> <<>>, query |-> query, domain |-> <<>>,
     context |-> PyDict(EmptyDict), answer |-> <<>>]

\* resolve_domain without the fallback: the normalised text is kept as it is
resolve_domain_no_fallback(content) == Upper(Strip(content))

\* resolve_domain that upper-cases the text without trimming it
resolve_domain_no_strip(content) ==
    LET domain == Upper(content)
    IN  IF ~InList(domain, valid_domains) THEN REGULATORY ELSE domain

\* resolve_domain whose fallback fires only on an empty text (`if not domain`)
resolve_domain_empty_only(content) ==
    LET domain == Upper(Strip(content))
    IN  IF domain = <<>> THEN REGULATORY ELSE domain

\* the label _classify_domain derives from response.content
resolve_domain(content) ==
    LET domain == Upper(Strip(content))
    IN  IF ~InList(domain, valid_domains) THEN REGULATORY ELSE domain

\* classified_state that also appends the completion text to the messages
classified_state_keeps_message(st, content) ==
    LET domain == resolve_domain(content)
    IN  [st EXCEPT !.domain = domain, !.next = Lower(domain),
                   !.messages = Append(st.messages, content)]

\* the state _classify_domain returns for a completion text
classified_state(st, content) ==
    LET domain == resolve_domain(content)
    IN  [st EXCEPT !.domain = domain, !.next = Lower(domain)]

\* _route_to_agent returning the label as stored, not lower-cased
_route_to_agent_raw(st) == st.domain

\* state.get("domain", "REGULATORY").lower()
_route_to_agent(st) == Lower(st.domain)

\* conditional_edges with the capital key pointing at the regulatory node
conditional_edges_miswired ==
    [k \in {n_regulatory, n_capital, n_fairness, n_ops} |->
        IF k = n_capital THEN n_regulatory ELSE k]

\* the mapping given to add_conditional_edges
conditional_edges ==
    [k \in {n_regulatory, n_capital, n_fairness, n_ops} |-> k]

\* edges with the capital node leading back to the orchestrator node
edges_loop ==
    [n \in {n_regulatory, n_capital, n_fairness, n_ops} |->
        IF n = n_capital THEN n_orchestrator ELSE n_END]

\* add_edge(<handler>, END)
edges == [n \in {n_regulatory, n_capital, n_fairness, n_ops} |-> n_END]

entry_point == n_orchestrator

\* placeholder_answer that echoes the query without the prefix
placeholder_answer_bare(n, query) == query

\* the f-string of each placeholder handler node
placeholder_answer(n, query) ==
    CASE n = n_regulatory -> RegulatoryPrefix \o query
      [] n = n_capital -> CapitalPrefix \o query
      [] n = n_fairness -> FairnessPrefix \o query
      [] n = n_ops -> OpsPrefix \o query

\* the dict Orchestrator.invoke returns
invoke_result(query, final) ==
    [query |-> query, domain |-> final.domain, answer |-> final.answer,
     context |-> final.context]

-----------------------------------------------------------------------------
(* Specialist agents: pure parts *)

calc_keywords ==
    << <<"c", "a", "l", "c", "u", "l", "a", "t", "e">>,
       <<"c", "o", "m", "p", "u", "t", "e">>,
       <<"e", "s", "t", "i", "m", "a", "t", "e">>,
       <<"p", "r", "o", "v", "i", "s", "i", "o", "n">>,
       <<"r", "w", "a">>,
       <<"c", "e", "c", "l">>,
       <<"l", "o", "s", "s">>,
       <<"c", "a", "p", "i", "t", "a", "l", " ", "r", "a", "t", "i", "o">>,
       <<"s", "t", "r", "e", "s", "s">> >>

fairness_keywords ==
    << <<"d", "i", "s", "p", "a", "r", "a", "t", "e">>,
       <<"b", "i", "a", "s">>,
       <<"d", "i", "s", "c", "r", "i", "m", "i", "n", "a", "t", "i", "o", "n">>,
       <<"f", "a", "i", "r", "n", "e", "s", "s">>,
       <<"e", "c", "o", "a">>,
       <<"p", "r", "o", "t", "e", "c", "t", "e", "d", " ", "c", "l", "a", "s", "s">>,
       <<"a", "d", "v", "e", "r", "s", "e", " ", "a", "c", "t", "i", "o", "n">>,
       <<"r", "e", "d", "l", "i", "n", "i", "n", "g">> >>

\* _requires_calculation that looks for the keywords in the query as typed
_requires_calculation_case_sensitive(query) ==
    \E i \in 1..Len(calc_keywords) : Contains(query, calc_keywords[i])

\* any(keyword in query.lower() for keyword in calc_keywords)
_requires_calculation(query) ==
    \E i \in 1..Len(calc_keywords) : Contains(Lower(query), calc_keywords[i])

\* _requires_fairness_analysis that wants the whole query to be a keyword
_requires_fairness_analysis_exact(query) ==
    \E i \in 1..Len(fairness_keywords) : Lower(query) = fairness_keywords[i]

\* any(keyword in query.lower() for keyword in fairness_keywords)
_requires_fairness_analysis(query) ==
    \E i \in 1..Len(fairness_keywords) : Contains(Lower(query), fairness_keywords[i])

\* the dict the capital producer builds (amounts in dollars; the two
\* fractional averages, which no code reads, are left out)
mesh_result ==
    [model |-> "cecl_commercial_loan_model", calculated_provision |-> 1250000,
     ead_total |-> 50000000, confidence_interval |-> "95%", scenario |-> "baseline"]

\* the dict the fairness producer builds (ratios in hundredths)
reference_metrics ==
    [model |-> "consumer_credit_scorecard",
     disparate_impact_ratios |->
        [race_minority_vs_majority |-> 78, gender_female_vs_male |-> 92,
         age_older_vs_younger |-> 85],
     adverse_impact_threshold |-> 80,
     recommendation |-> "REVIEW REQUIRED - Race disparate impact ratio below threshold"]

\* the capital producer without its except clause: the error leaves it
_call_mesh_for_capital_calc_uncaught(fault) ==
    IF fault THEN Raise(ProducerError) ELSE Return(mesh_result)

\* try: build and return the dict; except Exception: log, return None.
\* fault: the try block raised.
_call_mesh_for_capital_calc(fault) ==
    IF fault THEN Return(None) ELSE Return(mesh_result)

\* try: build and return the dict; except Exception: log, return None.
_analyze_disparate_impact(fault) ==
    IF fault THEN Return(None) ELSE Return(reference_metrics)

\* if not self.vector_store: return []; otherwise the search's own outcome
_retrieve_context(vector_store, search) ==
    IF ~vector_store THEN Return(PyList(<<>>))
    ELSE IF search.ok THEN Return(PyList(search.value)) ELSE search

\* max(ratios.values())
MaxValue(ratios) ==
    CHOOSE m \in {ratios[k] : k \in DOMAIN ratios} :
        \A k \in DOMAIN ratios : m >= ratios[k]

\* _assess_risk_level reading the largest ratio instead of the smallest
_assess_risk_level_of_max(m) ==
    IF m = None \/ DOMAIN m = {} THEN "UNKNOWN"
    ELSE LET ratios == IF "disparate_impact_ratios" \in DOMAIN m
                       THEN m.disparate_impact_ratios ELSE EmptyDict
             max_ratio == IF DOMAIN ratios # {} THEN MaxValue(ratios) ELSE 100
         IN  IF max_ratio < 70 THEN "CRITICAL"
             ELSE IF max_ratio < 80 THEN "HIGH"
             ELSE IF max_ratio < 90 THEN "MEDIUM"
             ELSE "LOW"

\* _assess_risk_level with inclusive thresholds (<= in place of <)
_assess_risk_level_inclusive(m) ==
    IF m = None \/ DOMAIN m = {} THEN "UNKNOWN"
    ELSE LET ratios == IF "disparate_impact_ratios" \in DOMAIN m
                       THEN m.disparate_impact_ratios ELSE EmptyDict
             min_ratio == IF DOMAIN ratios # {}
                          THEN CHOOSE v \in {ratios[k] : k \in DOMAIN ratios} :
                                  \A k \in DOMAIN ratios : v <= ratios[k]
                          ELSE 100
         IN  IF min_ratio <= 70 THEN "CRITICAL"
             ELSE IF min_ratio <= 80 THEN "HIGH"
             ELSE IF min_ratio <= 90 THEN "MEDIUM"
             ELSE "LOW"

\* min(ratios.values())
MinValue(ratios) ==
    CHOOSE m \in {ratios[k] : k \in DOMAIN ratios} :
        \A k \in DOMAIN ratios : m <= ratios[k]

\* `not metrics`: None or an empty dict
Falsy(m) == m = None \/ DOMAIN m = {}

\* _assess_risk_level answering UNKNOWN when there are no ratios to read
_assess_risk_level_unknown_without_ratios(m) ==
    IF Falsy(m) THEN "UNKNOWN"
    ELSE LET ratios == IF "disparate_impact_ratios" \in DOMAIN m
                       THEN m.disparate_impact_ratios ELSE EmptyDict
         IN  IF DOMAIN ratios = {} THEN "UNKNOWN"
             ELSE LET min_ratio == MinValue(ratios)
                  IN  IF min_ratio < 70 THEN "CRITICAL"
                      ELSE IF min_ratio < 80 THEN "HIGH"
                      ELSE IF min_ratio < 90 THEN "MEDIUM"
                      ELSE "LOW"

\* FairnessAgent._assess_risk_level, ratios in hundredths
_assess_risk_level(m) ==
    IF Falsy(m) THEN "UNKNOWN"
    ELSE LET ratios == IF "disparate_impact_ratios" \in DOMAIN m
                       THEN m.disparate_impact_ratios ELSE EmptyDict
             min_ratio == IF DOMAIN ratios # {} THEN MinValue(ratios) ELSE 100
         IN  IF min_ratio < 70 THEN "CRITICAL"
             ELSE IF min_ratio < 80 THEN "HIGH"
             ELSE IF min_ratio < 90 THEN "MEDIUM"
             ELSE "LOW"

\* RegulatoryAgent._extract_citations
_extract_citations(answer) ==
    (IF Contains(answer, <<"S", "R", " ", "1", "1", "-", "7">>)
     THEN << <<"S", "R", " ", "1", "1", "-", "7">> >> ELSE <<>>)
    \o (IF Contains(answer, <<"B", "a", "s", "e", "l">>)
        THEN << <<"B", "a", "s", "e", "l", " ", "I", "I", "I">> >> ELSE <<>>)

\* CapitalAgent._extract_calculations
_extract_calculations(answer) ==
    (IF Contains(Lower(answer), <<"p", "r", "o", "v", "i", "s", "i", "o", "n">>)
     THEN << [type |-> "cecl_provision", mentioned |-> TRUE] >> ELSE <<>>)
    \o (IF Contains(Lower(answer), <<"r", "w", "a">>)
        THEN << [type |-> "rwa_calculation", mentioned |-> TRUE] >> ELSE <<>>)

\* OpsAgent._generate_monitoring_plan
_generate_monitoring_plan ==
    << "Monitor model performance metrics daily",
       "Track data quality scores (>95% completeness target)",
       "Alert on drift detection (PSI > 0.25)",
       "Review model logs for anomalies" >>

-----------------------------------------------------------------------------
(* HTTP layer: pure parts *)

\* domain label each direct endpoint writes into its response
endpoint_domain ==
    [ep \in Endpoints \ {"/query"} |->
        CASE ep = "/query/regulatory" -> n_regulatory
          [] ep = "/query/capital" -> n_capital
          [] ep = "/query/fairness" -> n_fairness
          [] ep = "/query/ops" -> n_ops]

\* QueryResponse(**kw): context is declared Dict[str, Any].  pydantic 1
\* coerces with dict(v), which accepts an empty list and rejects a list of
\* document strings; pydantic 2 rejects every list.
QueryResponse(kw, version) ==
    IF kw.context.py = "dict" THEN Return(kw)
    ELSE IF kw.context.items = <<>> /\ version = 1
         THEN Return([kw EXCEPT !.context = PyDict(EmptyDict)])
         ELSE Raise(ValidationError)

\* result.get("context", {})
get_context(r) == IF "context" \in DOMAIN r THEN r.context ELSE PyDict(EmptyDict)

\* a 500 response that hides the exception's message
http_exception_generic(e) == [status |-> 500, detail |-> "Internal Server Error"]

\* HTTPException(status_code=500, detail=str(e))
http_exception(e) == [status |-> 500, detail |-> StrOf(e)]

\* the 200 response carrying the response model
http_ok(body) == [status |-> 200, body |-> body]

-----------------------------------------------------------------------------
(* State machine *)

NoThrow == [src |-> "none", e |-> NoExc]

Init ==
    /\ pc = "idle"
    /\ endpoint = ""
    /\ request = [query |-> <<>>, domain |-> <<>>]
    /\ state = initial_state(<<>>)
    /\ executed = <<>>
    /\ llm_text = <<>>
    /\ aux = None
    /\ aux_failed = FALSE
    /\ result = None
    /\ exc = NoExc
    /\ http = None
    /\ node = <<>>
    /\ thrown = NoThrow
    /\ metrics = None
    /\ risk_level = ""
    /\ calls = <<>>
    /\ heap = <<>>
    /\ inv = <<>>

riskVars == <<metrics, risk_level>>
concVars == <<heap, inv>>

\* one external call: a completion call ("llm") or an auxiliary call ("aux")
Call(kind, by) == [kind |-> kind, by |-> by]
graphVars == <<state, executed, llm_text, node>>
agentVars == <<aux, aux_failed>>

\* an exception e raised by collaborator src leaves the current call
Propagate(src, e) ==
    /\ thrown' = [src |-> src, e |-> e]
    /\ exc' = e
    /\ pc' = "raised"

\* a client posts a QueryRequest to one of the endpoints
Post ==
    /\ pc = "idle"
    /\ \E ep \in Endpoints, q \in Queries, d \in RequestDomains :
          /\ endpoint' = ep
          /\ request' = [query |-> q, domain |-> d]
    /\ pc' = "handler"
    /\ UNCHANGED <<graphVars, agentVars, result, exc, http, thrown, riskVars, concVars, calls>>

\* query(): orchestrator.invoke(request.query) builds the initial state and
\* starts the compiled graph at its entry point
orchestrator_invoke ==
    /\ pc = "handler"
    /\ endpoint = "/query"
    /\ state' = initial_state(request.query)
    /\ node' = entry_point
    /\ pc' = "node"
    /\ UNCHANGED <<endpoint, request, executed, llm_text, agentVars, result, exc,
                   http, thrown, riskVars, concVars, calls>>

\* _classify_domain that catches the completion error and falls back to
\* REGULATORY as it does for an unrecognised text
_classify_domain_default_on_error ==
    /\ pc = "node"
    /\ node = n_orchestrator
    /\ \/ \E content \in Responses :
             /\ llm_text' = content
             /\ state' = classified_state(state, content)
             /\ UNCHANGED thrown
       \/ \E e \in LLMErrors :
             /\ thrown' = [src |-> "classifier", e |-> e]
             /\ state' = classified_state(state, <<>>)
             /\ UNCHANGED llm_text
    /\ executed' = Append(executed, node)
    /\ pc' = "route"
    /\ calls' = Append(calls, Call("llm", "classifier"))
    /\ UNCHANGED <<endpoint, request, node, agentVars, result, exc, http, riskVars, concVars>>

\* _classify_domain that calls the completion service again after an error
_classify_domain_retry ==
    /\ pc = "node"
    /\ node = n_orchestrator
    /\ \/ \E content \in Responses :
             /\ llm_text' = content
             /\ state' = classified_state(state, content)
             /\ executed' = Append(executed, node)
             /\ pc' = "route"
             /\ UNCHANGED <<exc, thrown>>
       \/ \E e \in LLMErrors :
             /\ IF Len(calls) < 2
                THEN UNCHANGED <<pc, exc, thrown>>
                ELSE Propagate("classifier", e)
             /\ UNCHANGED <<llm_text, state, executed>>
    /\ calls' = Append(calls, Call("llm", "classifier"))
    /\ UNCHANGED <<endpoint, request, node, agentVars, result, http, riskVars, concVars>>

\* node "orchestrator": one completion call, then the label is validated
_classify_domain ==
    /\ pc = "node"
    /\ node = n_orchestrator
    /\ \/ \E content \in Responses :
             /\ llm_text' = content
             /\ state' = classified_state(state, content)
             /\ executed' = Append(executed, node)
             /\ pc' = "route"
             /\ UNCHANGED <<exc, thrown>>
       \/ \E e \in LLMErrors :
             /\ Propagate("classifier", e)
             /\ UNCHANGED <<llm_text, state, executed>>
    /\ calls' = Append(calls, Call("llm", "classifier"))
    /\ UNCHANGED <<endpoint, request, node, agentVars, result, http, riskVars, concVars>>

\* the conditional edge out of "orchestrator": _route_to_agent's value is
\* looked up in the mapping; a missing key is a KeyError in the runner
route ==
    /\ pc = "route"
    /\ LET key == _route_to_agent(state)
       IN  IF key \in DOMAIN conditional_edges
           THEN /\ node' = conditional_edges[key]
                /\ pc' = "node"
                /\ UNCHANGED <<exc, thrown>>
           ELSE /\ Propagate("graph", [type |-> "KeyError", msg |-> "unknown branch"])
                /\ UNCHANGED node
    /\ UNCHANGED <<endpoint, request, state, executed, llm_text, agentVars, result,
                   http, riskVars, concVars, calls>>

\* a placeholder handler node n: sets the answer, then the runner follows
\* the node's edge (END for every handler)
call_agent(n) ==
    /\ pc = "node"
    /\ node = n
    /\ state' = [state EXCEPT !.answer = placeholder_answer(n, state.query)]
    /\ executed' = Append(executed, n)
    /\ node' = edges[n]
    /\ pc' = IF edges[n] = n_END THEN "end" ELSE "node"
    /\ UNCHANGED <<endpoint, request, llm_text, agentVars, result, exc, http,
                   thrown, riskVars, concVars, calls>>

_call_regulatory_agent ==
    /\ node = n_regulatory
    /\ call_agent(n_regulatory)

_call_capital_agent ==
    /\ node = n_capital
    /\ call_agent(n_capital)

_call_fairness_agent ==
    /\ node = n_fairness
    /\ call_agent(n_fairness)

_call_ops_agent ==
    /\ node = n_ops
    /\ call_agent(n_ops)

\* the graph reached END: Orchestrator.invoke returns its dict
orchestrator_return ==
    /\ pc = "end"
    /\ node = n_END
    /\ result' = invoke_result(request.query, state)
    /\ pc' = "respond"
    /\ UNCHANGED <<endpoint, request, graphVars, agentVars, exc, http, thrown,
                   riskVars, concVars, calls>>

\* a direct endpoint constructs its agent inside the try block
construct_agent ==
    /\ pc = "handler"
    /\ endpoint # "/query"
    /\ \/ /\ pc' = "invoke"
          /\ UNCHANGED <<exc, thrown>>
       \/ Propagate("construct", ConstructError)
    /\ UNCHANGED <<endpoint, request, graphVars, agentVars, result, http, riskVars, concVars, calls>>

\* RegulatoryAgent.invoke, lines 86-90: _retrieve_context's outcome is used
\* as it comes; an exception leaving it leaves invoke
regulatory_retrieve ==
    /\ pc = "invoke"
    /\ endpoint = "/query/regulatory"
    /\ \E search \in {Return(docs) : docs \in SearchResults} \cup {Raise(SearchError)} :
          LET out == _retrieve_context(TRUE, search)
          IN  IF out.ok
              THEN /\ aux' = out.value
                   /\ aux_failed' = ~search.ok
                   /\ pc' = "llm"
                   /\ UNCHANGED <<exc, thrown>>
              ELSE /\ Propagate("search", out.e)
                   /\ aux_failed' = TRUE
                   /\ UNCHANGED aux
    /\ calls' = Append(calls, Call("aux", "regulatory"))
    /\ UNCHANGED <<endpoint, request, graphVars, result, http, riskVars, concVars>>

\* RegulatoryAgent.invoke, lines 111-127: the completion call and the result
regulatory_answer ==
    /\ pc = "llm"
    /\ endpoint = "/query/regulatory"
    /\ \/ \E content \in Answers :
             /\ result' = [agent |-> "regulatory", query |-> request.query,
                           answer |-> content, context |-> aux,
                           citations |-> _extract_citations(content)]
             /\ pc' = "respond"
             /\ UNCHANGED <<exc, thrown>>
       \/ \E e \in LLMErrors :
             /\ Propagate("llm", e)
             /\ UNCHANGED result
    /\ calls' = Append(calls, Call("llm", "regulatory"))
    /\ UNCHANGED <<endpoint, request, graphVars, agentVars, http, riskVars, concVars>>

\* CapitalAgent.invoke, lines 44-48: the producer runs only when a keyword
\* asks for it; fault: the producer's try block raised
capital_aux ==
    /\ pc = "invoke"
    /\ endpoint = "/query/capital"
    /\ IF _requires_calculation(request.query)
       THEN \E fault \in BOOLEAN :
               LET out == _call_mesh_for_capital_calc(fault)
               IN  /\ aux_failed' = fault
                   /\ calls' = Append(calls, Call("aux", "capital"))
                   /\ IF out.ok
                      THEN /\ aux' = out.value
                           /\ pc' = "llm"
                           /\ UNCHANGED <<exc, thrown>>
                      ELSE /\ Propagate("producer", out.e)
                           /\ UNCHANGED aux
       ELSE /\ aux' = None
            /\ pc' = "llm"
            /\ UNCHANGED <<aux_failed, exc, thrown, calls>>
    /\ UNCHANGED <<endpoint, request, graphVars, result, http, riskVars, concVars>>

\* capital_answer with the completion call wrapped in a try/except that
\* returns a record without an answer
capital_answer_swallow ==
    /\ pc = "llm"
    /\ endpoint = "/query/capital"
    /\ \/ \E content \in Answers :
             /\ result' = [agent |-> "capital", query |-> request.query,
                           answer |-> content, mesh_results |-> aux,
                           calculations |-> _extract_calculations(content)]
             /\ pc' = "respond"
             /\ UNCHANGED <<exc, thrown>>
       \/ \E e \in LLMErrors :
             /\ thrown' = [src |-> "llm", e |-> e]
             /\ result' = [agent |-> "capital", query |-> request.query,
                           answer |-> <<>>, mesh_results |-> aux,
                           calculations |-> <<>>]
             /\ pc' = "respond"
             /\ UNCHANGED exc
    /\ calls' = Append(calls, Call("llm", "capital"))
    /\ UNCHANGED <<endpoint, request, graphVars, agentVars, http, riskVars, concVars>>

\* CapitalAgent.invoke, lines 68-84
capital_answer ==
    /\ pc = "llm"
    /\ endpoint = "/query/capital"
    /\ \/ \E content \in Answers :
             /\ result' = [agent |-> "capital", query |-> request.query,
                           answer |-> content, mesh_results |-> aux,
                           calculations |-> _extract_calculations(content)]
             /\ pc' = "respond"
             /\ UNCHANGED <<exc, thrown>>
       \/ \E e \in LLMErrors :
             /\ Propagate("llm", e)
             /\ UNCHANGED result
    /\ calls' = Append(calls, Call("llm", "capital"))
    /\ UNCHANGED <<endpoint, request, graphVars, agentVars, http, riskVars, concVars>>

\* FairnessAgent.invoke, lines 44-48
fairness_aux ==
    /\ pc = "invoke"
    /\ endpoint = "/query/fairness"
    /\ IF _requires_fairness_analysis(request.query)
       THEN \E fault \in BOOLEAN :
               LET out == _analyze_disparate_impact(fault)
               IN  /\ aux_failed' = fault
                   /\ calls' = Append(calls, Call("aux", "fairness"))
                   /\ IF out.ok
                      THEN /\ aux' = out.value
                           /\ pc' = "llm"
                           /\ UNCHANGED <<exc, thrown>>
                      ELSE /\ Propagate("producer", out.e)
                           /\ UNCHANGED aux
       ELSE /\ aux' = None
            /\ pc' = "llm"
            /\ UNCHANGED <<aux_failed, exc, thrown, calls>>
    /\ UNCHANGED <<endpoint, request, graphVars, result, http, riskVars, concVars>>

\* FairnessAgent.invoke, lines 68-84
fairness_answer ==
    /\ pc = "llm"
    /\ endpoint = "/query/fairness"
    /\ \/ \E content \in Answers :
             /\ result' = [agent |-> "fairness", query |-> request.query,
                           answer |-> content, fairness_metrics |-> aux,
                           risk_level |-> _assess_risk_level(aux)]
             /\ pc' = "respond"
             /\ UNCHANGED <<exc, thrown>>
       \/ \E e \in LLMErrors :
             /\ Propagate("llm", e)
             /\ UNCHANGED result
    /\ calls' = Append(calls, Call("llm", "fairness"))
    /\ UNCHANGED <<endpoint, request, graphVars, agentVars, http, riskVars, concVars>>

\* OpsAgent.invoke: no auxiliary step
ops_answer ==
    /\ pc = "invoke"
    /\ endpoint = "/query/ops"
    /\ \/ \E content \in Answers :
             /\ result' = [agent |-> "ops", query |-> request.query,
                           answer |-> content,
                           monitoring_recommendations |-> _generate_monitoring_plan]
             /\ pc' = "respond"
             /\ UNCHANGED <<exc, thrown>>
       \/ \E e \in LLMErrors :
             /\ Propagate("llm", e)
             /\ UNCHANGED result
    /\ calls' = Append(calls, Call("llm", "ops"))
    /\ UNCHANGED <<endpoint, request, graphVars, agentVars, http, riskVars, concVars>>

\* the keyword arguments each endpoint gives QueryResponse
response_args ==
    IF endpoint = "/query" THEN result
    ELSE [query |-> request.query, domain |-> endpoint_domain[endpoint],
          answer |-> result.answer, context |-> get_context(result)]

\* the endpoint builds its QueryResponse, still inside the try block
respond ==
    /\ pc = "respond"
    /\ \E version \in PydanticVersions :
          LET out == QueryResponse(response_args, version)
          IN  IF out.ok
              THEN /\ http' = http_ok(out.value)
                   /\ pc' = "done"
                   /\ UNCHANGED <<exc, thrown>>
              ELSE /\ Propagate("validation", out.e)
                   /\ UNCHANGED http
    /\ UNCHANGED <<endpoint, request, graphVars, agentVars, result, riskVars, concVars, calls>>

\* except Exception as e: raise HTTPException(status_code=500, detail=str(e))
endpoint_except ==
    /\ pc = "raised"
    /\ http' = http_exception(exc)
    /\ pc' = "done"
    /\ UNCHANGED <<endpoint, request, graphVars, agentVars, result, exc, thrown,
                   riskVars, concVars, calls>>

Next ==
    \/ Post
    \/ orchestrator_invoke
    \/ _classify_domain
    \/ route
    \/ _call_regulatory_agent
    \/ _call_capital_agent
    \/ _call_fairness_agent
    \/ _call_ops_agent
    \/ orchestrator_return
    \/ construct_agent
    \/ regulatory_retrieve
    \/ regulatory_answer
    \/ capital_aux
    \/ capital_answer
    \/ fairness_aux
    \/ fairness_answer
    \/ ops_answer
    \/ respond
    \/ endpoint_except

Spec == Init /\ [][Next]_vars

-----------------------------------------------------------------------------
(* FairnessAgent._assess_risk_level as a pure function of its argument *)

\* keys of a generated ratios mapping
GroupNames ==
    <<"race_minority_vs_majority", "gender_female_vs_male", "age_older_vs_younger",
      "marital_status">>

Groups == {GroupNames[i] : i \in 1..(IF MaxGroups < Len(GroupNames) THEN MaxGroups ELSE Len(GroupNames))}

\* ratios in hundredths, 0.60 .. 1.00
RatioValues == 60..100

\* every ratios mapping over a subset of the groups, the empty one included
RatioMaps == UNION {[S -> RatioValues] : S \in SUBSET Groups}

InitRisk ==
    /\ pc = "risk"
    /\ endpoint = ""
    /\ request = [query |-> <<>>, domain |-> <<>>]
    /\ state = initial_state(<<>>)
    /\ executed = <<>>
    /\ llm_text = <<>>
    /\ aux = None
    /\ aux_failed = FALSE
    /\ result = None
    /\ exc = NoExc
    /\ http = None
    /\ node = <<>>
    /\ thrown = NoThrow
    /\ risk_level = ""
    /\ calls = <<>>
    /\ heap = <<>>
    /\ inv = <<>>
    /\ \/ metrics = None
       \/ metrics = EmptyDict
       \/ metrics = [model |-> "consumer_credit_scorecard"]
       \/ \E r \in RatioMaps :
             metrics = [model |-> "consumer_credit_scorecard",
                        disparate_impact_ratios |-> r]

\* one call of _assess_risk_level(metrics)
assess_risk_level ==
    /\ pc = "risk"
    /\ risk_level' = _assess_risk_level(metrics)
    /\ pc' = "risk_done"
    /\ UNCHANGED <<endpoint, request, graphVars, agentVars, result, exc, http,
                   thrown, metrics, calls, concVars>>

NextRisk == assess_risk_level

SpecRisk == InitRisk /\ [][NextRisk]_vars

-----------------------------------------------------------------------------
(* Concurrent calls of Orchestrator.invoke on the module-level orchestrator *)

Invocations == 1..NumInvocations

\* queries of the concurrent callers
ConcQueries == { <<"B", "a", "s", "e", "l">>, <<"d", "r", "i", "f", "t">> }

\* completion texts the classifier receives in the concurrent runs
ConcResponses ==
    { REGULATORY, CAPITAL, FAIRNESS, OPS,
      <<"c", "a", "p", "i", "t", "a", "l">>,
      <<"U", "N", "K", "N", "O", "W", "N">> }

\* one state object kept for all calls: every invocation gets address 1
new_AgentState_shared(i) == 1

\* AgentState(...) in invoke builds a new dict on every call: the state of
\* invocation i lives at an address of its own
new_AgentState(i) == i

\* a call of invoke that has not started
idle_invocation ==
    [pc |-> "idle", query |-> <<>>, text |-> <<>>, ref |-> 0, node |-> <<>>,
     executed |-> <<>>, result |-> None, e |-> NoExc]

InitConc ==
    /\ pc = "conc"
    /\ endpoint = "/query"
    /\ request = [query |-> <<>>, domain |-> <<>>]
    /\ state = initial_state(<<>>)
    /\ executed = <<>>
    /\ llm_text = <<>>
    /\ aux = None
    /\ aux_failed = FALSE
    /\ result = None
    /\ exc = NoExc
    /\ http = None
    /\ node = <<>>
    /\ thrown = NoThrow
    /\ metrics = None
    /\ risk_level = ""
    /\ calls = <<>>
    /\ heap = [r \in Invocations |-> None]
    /\ inv = [i \in Invocations |-> idle_invocation]

seqVars ==
    <<pc, endpoint, request, state, executed, llm_text, aux, aux_failed, result,
      exc, http, node, thrown, metrics, risk_level, calls>>

\* invoke(query), lines 147-156: the initial state is built and the graph
\* starts at its entry point
invoke_start(i) ==
    /\ inv[i].pc = "idle"
    /\ \E q \in ConcQueries :
          LET r == new_AgentState(i)
          IN  /\ heap' = [heap EXCEPT ![r] = initial_state(q)]
              /\ inv' = [inv EXCEPT ![i] = [@ EXCEPT !.pc = "node", !.query = q,
                                                     !.ref = r, !.node = entry_point]]
    /\ UNCHANGED seqVars

\* node "orchestrator" of invocation i
invoke_classify(i) ==
    /\ inv[i].pc = "node"
    /\ inv[i].node = n_orchestrator
    /\ \/ \E content \in ConcResponses :
             /\ heap' = [heap EXCEPT ![inv[i].ref] = classified_state(@, content)]
             /\ inv' = [inv EXCEPT ![i] = [@ EXCEPT !.pc = "route", !.text = content,
                                                    !.executed = Append(@, n_orchestrator)]]
       \/ \E err \in LLMErrors :
             /\ inv' = [inv EXCEPT ![i] = [@ EXCEPT !.pc = "raised", !.e = err]]
             /\ UNCHANGED heap
    /\ UNCHANGED seqVars

\* the conditional edge of invocation i
invoke_route(i) ==
    /\ inv[i].pc = "route"
    /\ LET key == _route_to_agent(heap[inv[i].ref])
       IN  IF key \in DOMAIN conditional_edges
           THEN inv' = [inv EXCEPT ![i] = [@ EXCEPT !.pc = "node",
                                                   !.node = conditional_edges[key]]]
           ELSE inv' = [inv EXCEPT ![i] = [@ EXCEPT !.pc = "raised",
                                  !.e = [type |-> "KeyError", msg |-> "unknown branch"]]]
    /\ UNCHANGED <<heap, seqVars>>

\* the selected handler node of invocation i, then its edge to END
invoke_handler(i) ==
    /\ inv[i].pc = "node"
    /\ inv[i].node \in DOMAIN edges
    /\ LET n == inv[i].node
           st == heap[inv[i].ref]
       IN  /\ heap' = [heap EXCEPT ![inv[i].ref] =
                          [st EXCEPT !.answer = placeholder_answer(n, st.query)]]
           /\ inv' = [inv EXCEPT ![i] = [@ EXCEPT !.pc = "end", !.node = edges[n],
                                                  !.executed = Append(@, n)]]
    /\ UNCHANGED seqVars

\* invoke returns its dict to the caller of invocation i (lines 158-163)
invoke_return(i) ==
    /\ inv[i].pc = "end"
    /\ inv' = [inv EXCEPT ![i] = [@ EXCEPT !.pc = "returned",
                  !.result = invoke_result(inv[i].query, heap[inv[i].ref])]]
    /\ UNCHANGED <<heap, seqVars>>

NextConc ==
    \E i \in Invocations :
        \/ invoke_start(i)
        \/ invoke_classify(i)
        \/ invoke_route(i)
        \/ invoke_handler(i)
        \/ invoke_return(i)

SpecConc == InitConc /\ [][NextConc]_vars

-----------------------------------------------------------------------------
(* Claims *)

\* the classifier node has completed in this run
Classified == endpoint = "/query" /\ executed # <<>>

\* the completion text as the classifier compares it
Normalised(text) == Upper(Strip(text))

\* C1: once _classify_domain has completed, whatever text the completion
\* service returned, state.domain is one of the four labels and state.next is
\* its lower-case form; an unrecognised text becomes REGULATORY and raises
\* nothing.
C1_DomainAlwaysValid ==
    Classified =>
        /\ InList(state.domain, valid_domains)
        /\ state.next = Lower(state.domain)
        /\ state.next \in {n_regulatory, n_capital, n_fairness, n_ops}
        /\ pc # "raised"
        /\ (~InList(Normalised(llm_text), valid_domains) => state.domain = REGULATORY)

\* C1 witness: the classifier completed on a text outside the set
C1_Witness ==
    /\ Classified
    /\ llm_text = <<"U", "N", "K", "N", "O", "W", "N">>
    /\ state.domain = REGULATORY
    /\ state.next = n_regulatory
    /\ pc = "done"

\* C2 as stated: every completion text that is not literally one of the four
\* labels (lower-case variants included) resolves to REGULATORY.
C2_Original ==
    (Classified /\ ~InList(llm_text, valid_domains)) => state.domain = REGULATORY

\* C2 amended: every completion text whose trimmed, upper-cased form is not
\* one of the four labels (the empty string and multi-token strings included)
\* resolves to REGULATORY; a lower-case variant such as "capital" resolves to
\* its own label.
C2_UnrecognisedIsRegulatory ==
    Classified =>
        /\ (~InList(Normalised(llm_text), valid_domains) => state.domain = REGULATORY)
        /\ (llm_text = <<>> => state.domain = REGULATORY)
        /\ (llm_text = <<"C", "A", "P", "I", "T", "A", "L", " ", "O", "P", "S">>
              => state.domain = REGULATORY)
        /\ (llm_text = <<"c", "a", "p", "i", "t", "a", "l">> => state.domain = CAPITAL)

\* C2 witness: a multi-token text was classified
C2_Witness ==
    /\ Classified
    /\ llm_text = <<"C", "A", "P", "I", "T", "A", "L", " ", "O", "P", "S">>
    /\ state.domain = REGULATORY

\* the handler node named after a label
HandlerNamed(D) ==
    CASE D = REGULATORY -> n_regulatory
      [] D = CAPITAL -> n_capital
      [] D = FAIRNESS -> n_fairness
      [] D = OPS -> n_ops

\* C3: for each of the four valid classifier outputs D, a run executes the
\* orchestrator node and then exactly the handler node named after D, no
\* other, and the returned record's domain is D.
C3_DispatchToNamedHandler ==
    \A D \in {REGULATORY, CAPITAL, FAIRNESS, OPS} :
        (Classified /\ llm_text = D) =>
            /\ Len(executed) <= 2
            /\ executed[1] = n_orchestrator
            /\ (Len(executed) = 2 => executed[2] = HandlerNamed(D))
            /\ (pc = "node" => node = HandlerNamed(D))
            /\ (pc \in {"end", "respond", "done"} => Len(executed) = 2)
            /\ (pc \in {"respond", "done"} => result.domain = D)
            /\ pc # "raised"

\* C3 witness: the classifier answered CAPITAL and the run was served
C3_Witness ==
    /\ Classified
    /\ llm_text = CAPITAL
    /\ executed = <<n_orchestrator, n_capital>>
    /\ pc = "done"
    /\ http = http_ok(result)
    /\ result.domain = CAPITAL

\* C4: Orchestrator.invoke either returns a record with the submitted query,
\* the resolved domain and a non-empty answer, or propagates the error the
\* classifier's completion call raised; it never returns an empty answer,
\* not even for an empty query.
C4_TerminalContract ==
    endpoint = "/query" =>
        /\ (pc \in {"respond", "done"} /\ thrown.src = "none" =>
              /\ result # None
              /\ result.query = request.query
              /\ result.domain = state.domain
              /\ InList(result.domain, valid_domains)
              /\ result.answer # <<>>
              /\ Len(result.answer) > Len(request.query))
        /\ (pc = "raised" =>
              /\ result = None
              /\ thrown.src = "classifier"
              /\ exc = thrown.e
              /\ exc \in LLMErrors)
        /\ (result # None => result.answer # <<>>)

\* C4 witness: invoke returned for the empty query
C4_Witness ==
    /\ endpoint = "/query"
    /\ pc = "respond"
    /\ request.query = <<>>
    /\ result # None
    /\ result.answer = OpsPrefix

\* _assess_risk_level was applied to metrics holding a non-empty ratios mapping
RatiosAssessed ==
    /\ pc = "risk_done"
    /\ metrics # None
    /\ DOMAIN metrics # {}
    /\ "disparate_impact_ratios" \in DOMAIN metrics
    /\ DOMAIN metrics.disparate_impact_ratios # {}

\* the ratios of the assessed metrics
AssessedRatios == {metrics.disparate_impact_ratios[k] : k \in DOMAIN metrics.disparate_impact_ratios}

\* m is the smallest of the assessed ratios
IsMinimum(m) == m \in AssessedRatios /\ \A v \in AssessedRatios : m <= v

\* C5: for metrics with a non-empty ratios mapping the risk level depends on
\* the minimum ratio m only, with strict thresholds (ratios in hundredths):
\* m < 70 CRITICAL, else m < 80 HIGH, else m < 90 MEDIUM, else LOW.
C5_RiskByMinimumRatio ==
    RatiosAssessed =>
        \A m \in AssessedRatios :
            IsMinimum(m) =>
                /\ (m < 70 => risk_level = "CRITICAL")
                /\ (m >= 70 /\ m < 80 => risk_level = "HIGH")
                /\ (m >= 80 /\ m < 90 => risk_level = "MEDIUM")
                /\ (m >= 90 => risk_level = "LOW")

\* C5 witness: two ratios on different sides of a threshold, the smaller decides
C5_Witness ==
    /\ RatiosAssessed
    /\ AssessedRatios = {79, 95}
    /\ risk_level = "HIGH"

\* C6 as stated: a minimum ratio of exactly 0.80 gives HIGH (and 0.65
\* CRITICAL, 0.75 HIGH, 0.85 MEDIUM, 0.95 LOW, absent metrics UNKNOWN).
C6_Original ==
    /\ (RatiosAssessed /\ IsMinimum(80) => risk_level = "HIGH")
    /\ (RatiosAssessed /\ IsMinimum(65) => risk_level = "CRITICAL")
    /\ (RatiosAssessed /\ IsMinimum(75) => risk_level = "HIGH")
    /\ (RatiosAssessed /\ IsMinimum(85) => risk_level = "MEDIUM")
    /\ (RatiosAssessed /\ IsMinimum(95) => risk_level = "LOW")
    /\ (pc = "risk_done" /\ metrics = None => risk_level = "UNKNOWN")

\* C6 amended: a minimum ratio of exactly 0.80 gives MEDIUM, not HIGH (and
\* 0.65 CRITICAL, 0.75 HIGH, 0.85 MEDIUM, 0.95 LOW, absent metrics UNKNOWN).
C6_BoundaryIsMedium ==
    /\ (RatiosAssessed /\ IsMinimum(80) => risk_level = "MEDIUM")
    /\ (RatiosAssessed /\ IsMinimum(65) => risk_level = "CRITICAL")
    /\ (RatiosAssessed /\ IsMinimum(75) => risk_level = "HIGH")
    /\ (RatiosAssessed /\ IsMinimum(85) => risk_level = "MEDIUM")
    /\ (RatiosAssessed /\ IsMinimum(95) => risk_level = "LOW")
    /\ (pc = "risk_done" /\ metrics = None => risk_level = "UNKNOWN")

\* C6 witness: the minimum ratio was exactly 0.80
C6_Witness ==
    /\ RatiosAssessed
    /\ IsMinimum(80)
    /\ risk_level = "MEDIUM"

\* C7: in the capital and fairness handlers a failing auxiliary producer
\* never aborts the invocation: only a failing completion call can, and when
\* the completion call succeeds the result carries an answer, a null
\* auxiliary field and, for fairness, risk_level UNKNOWN.
C7_ProducerFailureIsAbsorbed ==
    (endpoint \in {"/query/capital", "/query/fairness"} /\ aux_failed) =>
        /\ thrown.src \in {"none", "llm"}
        /\ aux = None
        /\ pc \in {"llm", "respond", "raised", "done"}
        /\ (pc = "raised" => thrown.src = "llm")
        /\ (thrown.src = "none" /\ pc \in {"respond", "done"} =>
              /\ result # None
              /\ result.answer \in Answers
              /\ (endpoint = "/query/capital" => result.mesh_results = None)
              /\ (endpoint = "/query/fairness" =>
                    /\ result.fairness_metrics = None
                    /\ result.risk_level = "UNKNOWN"))

\* C7 witness: the fairness producer failed and the request was still served
C7_Witness ==
    /\ endpoint = "/query/fairness"
    /\ aux_failed
    /\ pc = "done"
    /\ result # None
    /\ result.risk_level = "UNKNOWN"
    /\ http = http_ok([query |-> request.query, domain |-> n_fairness,
                       answer |-> result.answer, context |-> PyDict(EmptyDict)])

\* C8: in RegulatoryAgent.invoke a failing similarity search is caught at the
\* handler boundary: the handler goes on without context, makes its
\* completion call, and the failure is not surfaced as a request failure.
C8_SearchFailureIsAbsorbed ==
    (endpoint = "/query/regulatory" /\ aux_failed) =>
        /\ thrown.src # "search"
        /\ exc # SearchError
        /\ pc \in {"llm", "respond", "raised", "done"}
        /\ (pc = "done" /\ thrown.src = "none" => result # None)

\* C9: in each of the four specialist handlers an exception raised by the
\* completion call leaves invoke unmodified: no result record is returned
\* and the exception is neither swallowed, wrapped nor replaced.
C9_CompletionErrorPropagates ==
    thrown.src = "llm" =>
        /\ endpoint \in Endpoints \ {"/query"}
        /\ pc \in {"raised", "done"}
        /\ exc = thrown.e
        /\ exc \in LLMErrors
        /\ result = None

\* C9 witness: the capital handler's completion call raised
C9_Witness ==
    /\ endpoint = "/query/capital"
    /\ thrown.src = "llm"
    /\ pc = "raised"
    /\ exc = [type |-> "APITimeoutError", msg |-> "Request timed out."]

\* C10: at every POST endpoint an exception raised while the request is
\* processed (agent construction, classification, handler execution,
\* response construction) is answered with HTTP 500 whose detail is the
\* exception's message; it leaves the endpoint in no other form.
C10_ExceptionBecomes500 ==
    /\ (pc = "raised" =>
          /\ exc = thrown.e
          /\ thrown.src \in {"construct", "classifier", "search", "llm", "validation"}
          /\ ENABLED endpoint_except)
    /\ (pc = "done" /\ thrown.src # "none" =>
          http = [status |-> 500, detail |-> thrown.e.msg])
    /\ (pc = "done" /\ thrown.src = "none" =>
          "status" \in DOMAIN http /\ http.status = 200)

\* C10 witness: building the response model failed and the caller got a 500
C10_Witness ==
    /\ pc = "done"
    /\ thrown.src = "validation"
    /\ http = [status |-> 500, detail |-> "context: value is not a valid dict"]

\* the endpoint answered 200
Served == pc = "done" /\ "status" \in DOMAIN http /\ http.status = 200

\* number of calls of one kind issued by one caller
CallCount(kind, by) ==
    Cardinality({i \in 1..Len(calls) : calls[i] = Call(kind, by)})

\* C11: at POST /query a domain supplied in the request body decides the
\* routing, and the classifier runs only when the field is absent; the
\* response has the shape {query, domain, answer, context}.
C11_RequestDomainRoutes ==
    (endpoint = "/query" /\ request.domain # <<>>) =>
        /\ CallCount("llm", "classifier") = 0
        /\ (Len(executed) = 2 => executed[2] = Lower(request.domain[1]))
        /\ (Served => /\ DOMAIN http.body = {"query", "domain", "answer", "context"}
                      /\ http.body.domain = Upper(request.domain[1]))

\* the specialist a direct endpoint constructs
HandlerOf(ep) ==
    CASE ep = "/query/regulatory" -> "regulatory"
      [] ep = "/query/capital" -> "capital"
      [] ep = "/query/fairness" -> "fairness"
      [] ep = "/query/ops" -> "ops"

\* C12: a direct endpoint never runs the classifier, calls only the handler
\* named in its path, and whenever that handler returns a result answers 200
\* with the path's label and the handler's answer, the regulatory endpoint
\* (whose handler returns its context as a list) included.
C12_DirectEndpointSucceeds ==
    endpoint \in Endpoints \ {"/query"} =>
        /\ executed = <<>>
        /\ \A i \in 1..Len(calls) : calls[i].by = HandlerOf(endpoint)
        /\ CallCount("llm", "classifier") = 0
        /\ (result # None => pc \in {"respond", "done"})
        /\ (result # None /\ pc = "done" =>
              /\ http.status = 200
              /\ http.body.domain = endpoint_domain[endpoint]
              /\ http.body.answer = result.answer)


\* the agent a handler node stands for
AgentOf(n) ==
    CASE n = n_regulatory -> "regulatory"
      [] n = n_capital -> "capital"
      [] n = n_fairness -> "fairness"
      [] n = n_ops -> "ops"

\* C13: whenever Orchestrator.invoke has returned its result, the run was
\* classify (one completion call by the classifier), dispatch, the selected
\* handler node, and then a completion call made by that handler, from which
\* the answer comes: the call log holds the classifier's call followed by a
\* completion call of the executed handler.
C13_HandlerDelegatesToCompletion ==
    (endpoint = "/query" /\ result # None) =>
        /\ Len(executed) = 2
        /\ executed[1] = n_orchestrator
        /\ Len(calls) = 2
        /\ calls[1] = Call("llm", "classifier")
        /\ calls[2] = Call("llm", AgentOf(executed[2]))


\* C15: the classifier trims and upper-cases the completion text before the
\* membership test: a text that equals one of the four labels after that
\* (" capital\n", "Ops", " OPS") resolves to that label, and a text resolves
\* to REGULATORY only if it normalises to REGULATORY or to none of the labels
\* ("Fairness.").
C15_NormalisedBeforeMembership ==
    Classified =>
        /\ (InList(Normalised(llm_text), valid_domains)
              => state.domain = Normalised(llm_text))
        /\ (state.domain = REGULATORY
              => \/ Normalised(llm_text) = REGULATORY
                 \/ ~InList(Normalised(llm_text), valid_domains))
        /\ (llm_text = <<" ", "c", "a", "p", "i", "t", "a", "l", "\n">>
              => state.domain = CAPITAL)
        /\ (llm_text = <<"O", "p", "s">> => state.domain = OPS)
        /\ (llm_text = <<" ", "O", "P", "S">> => state.domain = OPS)
        /\ (llm_text = <<"F", "a", "i", "r", "n", "e", "s", "s", ".">>
              => state.domain = REGULATORY)

\* C15 witness: a padded lower-case label was classified and served
C15_Witness ==
    /\ Classified
    /\ llm_text = <<" ", "c", "a", "p", "i", "t", "a", "l", "\n">>
    /\ state.domain = CAPITAL
    /\ executed = <<n_orchestrator, n_capital>>
    /\ Served


HandlerNodes == {n_regulatory, n_capital, n_fairness, n_ops}

\* C17: a run whose classifier call returned ends at END after exactly two
\* node executions, the orchestrator node and then one handler node: every
\* handler's only successor is END, no conditional edge leads to the
\* orchestrator node, no node is executed twice, and until END is reached the
\* next graph step is always enabled (dispatch after one execution, the
\* selected handler after dispatch), so the run cannot stall or loop.
C17_LinearTwoHop ==
    /\ \A n \in HandlerNodes : edges[n] = n_END
    /\ \A k \in DOMAIN conditional_edges : conditional_edges[k] \in HandlerNodes
    /\ Classified =>
          /\ pc \in {"route", "node", "end", "respond", "done"}
          /\ executed[1] = n_orchestrator
          /\ \A i, j \in 1..Len(executed) : executed[i] = executed[j] => i = j
          /\ (pc = "route" => Len(executed) = 1 /\ ENABLED route)
          /\ (pc = "node" => /\ Len(executed) = 1
                             /\ node \in HandlerNodes
                             /\ ENABLED call_agent(node))
          /\ (pc \in {"end", "respond", "done"} =>
                 /\ Len(executed) = 2
                 /\ executed[2] \in HandlerNodes
                 /\ node = n_END)

\* C17 witness: the graph is at END after the orchestrator and fairness nodes
C17_Witness ==
    /\ Classified
    /\ pc = "end"
    /\ node = n_END
    /\ executed = <<n_orchestrator, n_fairness>>


\* the handler of a direct endpoint is past its auxiliary step
PastAux(ep) == endpoint = ep /\ pc \notin {"idle", "handler", "invoke"} /\ thrown.src # "construct"

\* the query, lower-cased, contains the word w
Mentions(w) == Contains(Lower(request.query), w)

\* C18: CapitalAgent.invoke calls the calculation producer exactly when the
\* lower-cased query contains one of calculate, compute, estimate, provision,
\* rwa, cecl, loss, capital ratio, stress ("Calculate CECL" does); when the
\* producer is not called the result's mesh_results is None, and when it is
\* called and succeeds mesh_results is the producer's (non-null) mapping.
C18_ProducerIffKeyword ==
    PastAux("/query/capital") =>
        /\ CallCount("aux", "capital") = 1 <=>
              \/ Mentions(<<"c", "a", "l", "c", "u", "l", "a", "t", "e">>)
              \/ Mentions(<<"c", "o", "m", "p", "u", "t", "e">>)
              \/ Mentions(<<"e", "s", "t", "i", "m", "a", "t", "e">>)
              \/ Mentions(<<"p", "r", "o", "v", "i", "s", "i", "o", "n">>)
              \/ Mentions(<<"r", "w", "a">>)
              \/ Mentions(<<"c", "e", "c", "l">>)
              \/ Mentions(<<"l", "o", "s", "s">>)
              \/ Mentions(<<"c", "a", "p", "i", "t", "a", "l", " ", "r", "a", "t", "i", "o">>)
              \/ Mentions(<<"s", "t", "r", "e", "s", "s">>)
        /\ CallCount("aux", "capital") \in {0, 1}
        /\ (request.query = <<"C", "a", "l", "c", "u", "l", "a", "t", "e", " ", "C", "E", "C", "L">>
              => CallCount("aux", "capital") = 1)
        /\ (result # None /\ CallCount("aux", "capital") = 0
              => result.mesh_results = None)
        /\ (result # None /\ CallCount("aux", "capital") = 1 /\ ~aux_failed
              => result.mesh_results # None /\ result.mesh_results = mesh_result)

\* C18 witness: "Calculate CECL" made the capital handler call the producer,
\* which succeeded, and the result carries its mapping
C18_Witness ==
    /\ PastAux("/query/capital")
    /\ request.query = <<"C", "a", "l", "c", "u", "l", "a", "t", "e", " ", "C", "E", "C", "L">>
    /\ calls = <<Call("aux", "capital"), Call("llm", "capital")>>
    /\ ~aux_failed
    /\ result # None
    /\ result.mesh_results = mesh_result


\* the lower-cased query contains one of the eight fairness keywords
MentionsFairness ==
    \/ Mentions(<<"d", "i", "s", "p", "a", "r", "a", "t", "e">>)
    \/ Mentions(<<"b", "i", "a", "s">>)
    \/ Mentions(<<"d", "i", "s", "c", "r", "i", "m", "i", "n", "a", "t", "i", "o", "n">>)
    \/ Mentions(<<"f", "a", "i", "r", "n", "e", "s", "s">>)
    \/ Mentions(<<"e", "c", "o", "a">>)
    \/ Mentions(<<"p", "r", "o", "t", "e", "c", "t", "e", "d", " ", "c", "l", "a", "s", "s">>)
    \/ Mentions(<<"a", "d", "v", "e", "r", "s", "e", " ", "a", "c", "t", "i", "o", "n">>)
    \/ Mentions(<<"r", "e", "d", "l", "i", "n", "i", "n", "g">>)

\* C19: in FairnessAgent.invoke a query whose lower-cased form contains a
\* fairness keyword ("disparate impact") makes the handler call the producer;
\* the result's fairness_metrics is what the producer returned and risk_level
\* is the level of that mapping's ratios (the reference mapping, whose
\* smallest ratio is 0.78: HIGH; nothing returned: UNKNOWN). A query without a
\* keyword gives fairness_metrics None and risk_level UNKNOWN.
C19_FairnessMetricsAndRisk ==
    PastAux("/query/fairness") =>
        /\ MentionsFairness <=> CallCount("aux", "fairness") = 1
        /\ (request.query = <<"d", "i", "s", "p", "a", "r", "a", "t", "e", " ", "i", "m", "p", "a", "c", "t">>
              => MentionsFairness)
        /\ (result # None /\ MentionsFairness /\ ~aux_failed =>
              /\ result.fairness_metrics = reference_metrics
              /\ LET r == result.fairness_metrics.disparate_impact_ratios
                 IN  /\ \E k \in DOMAIN r : r[k] = 78
                     /\ \A k \in DOMAIN r : r[k] >= 78
              /\ result.risk_level = "HIGH")
        /\ (result # None /\ MentionsFairness /\ aux_failed =>
              /\ result.fairness_metrics = None
              /\ result.risk_level = "UNKNOWN")
        /\ (result # None /\ ~MentionsFairness =>
              /\ CallCount("aux", "fairness") = 0
              /\ result.fairness_metrics = None
              /\ result.risk_level = "UNKNOWN")

\* C19 witness: "disparate impact" was analysed and rated HIGH
C19_Witness ==
    /\ PastAux("/query/fairness")
    /\ request.query = <<"d", "i", "s", "p", "a", "r", "a", "t", "e", " ", "i", "m", "p", "a", "c", "t">>
    /\ calls = <<Call("aux", "fairness"), Call("llm", "fairness")>>
    /\ result # None
    /\ result.fairness_metrics = reference_metrics
    /\ result.risk_level = "HIGH"


\* number of logged calls of one kind, whoever made them
KindCount(kind) == Cardinality({i \in 1..Len(calls) : calls[i].kind = kind})

\* C20: external calls are made once. A run of Orchestrator.invoke makes
\* exactly one completion call, the classifier's, and makes no further call
\* after that call failed or returned an unrecognised text; a specialist
\* handler's invoke makes at most one completion call and at most one
\* auxiliary or retrieval call, and none after a call of it failed.
C20_SingleAttempt ==
    /\ endpoint = "/query" =>
          /\ \A i \in 1..Len(calls) : calls[i] = Call("llm", "classifier")
          /\ Len(calls) <= 1
          /\ (Classified \/ thrown.src = "classifier" => Len(calls) = 1)
          /\ (Classified /\ ~InList(Normalised(llm_text), valid_domains) => Len(calls) = 1)
          /\ (Classified => thrown.src # "classifier")
    /\ endpoint \in Endpoints \ {"/query"} =>
          /\ \A i \in 1..Len(calls) : calls[i].by = HandlerOf(endpoint)
          /\ KindCount("llm") <= 1
          /\ KindCount("aux") <= 1
          /\ (thrown.src = "llm" => KindCount("llm") = 1 /\ calls[Len(calls)].kind = "llm")
          /\ (thrown.src = "search" => calls = <<Call("aux", "regulatory")>>)
          /\ (result # None => KindCount("llm") = 1)

\* C20 witness: the classifier's single call failed and the run ended with it
C20_Witness ==
    /\ endpoint = "/query"
    /\ thrown.src = "classifier"
    /\ calls = <<Call("llm", "classifier")>>
    /\ pc = "done"
    /\ http.status = 500


\* C14: however concurrent calls of invoke interleave, each call has a state
\* object of its own, and what a caller gets back comes from that caller's
\* query and that caller's classifier response only: the query is the one
\* submitted, the domain is the label of the caller's own completion text and
\* the answer is the selected handler's text for the caller's own query.
C14_InvocationsIsolated ==
    /\ \A i, j \in Invocations :
          (i # j /\ inv[i].pc # "idle" /\ inv[j].pc # "idle") => inv[i].ref # inv[j].ref
    /\ \A i \in Invocations :
          /\ (inv[i].pc \in {"node", "route", "end"} => heap[inv[i].ref].query = inv[i].query)
          /\ (inv[i].pc = "returned" =>
                /\ inv[i].result.query = inv[i].query
                /\ inv[i].result.domain = resolve_domain(inv[i].text)
                /\ inv[i].result.answer =
                      placeholder_answer(HandlerNamed(resolve_domain(inv[i].text)), inv[i].query))

\* C14 witness: two calls with different queries and different labels have
\* both returned, each with its own query, label and answer
C14_Witness ==
    /\ inv[1].pc = "returned"
    /\ inv[2].pc = "returned"
    /\ inv[1].query = <<"B", "a", "s", "e", "l">>
    /\ inv[2].query = <<"d", "r", "i", "f", "t">>
    /\ inv[1].result.domain = CAPITAL
    /\ inv[2].result.domain = OPS
    /\ inv[1].result.answer = CapitalPrefix \o <<"B", "a", "s", "e", "l">>
    /\ inv[2].result.answer = OpsPrefix \o <<"d", "r", "i", "f", "t">>

\* C16: dispatch is total and deterministic. Whenever a run evaluates
\* _route_to_agent its value is one of the keys regulatory, capital, fairness,
\* ops of the conditional-edge table, so no run fails in the lookup; and any
\* two runs whose resolved domains are equal execute the same handler node.
C16_DispatchTotalDeterministic ==
    /\ \A i \in Invocations :
          /\ (inv[i].pc = "route" =>
                /\ _route_to_agent(heap[inv[i].ref]) \in
                      {n_regulatory, n_capital, n_fairness, n_ops}
                /\ _route_to_agent(heap[inv[i].ref]) \in DOMAIN conditional_edges)
          /\ (inv[i].pc = "raised" => inv[i].e \in LLMErrors)
    /\ \A i, j \in Invocations :
          (/\ Len(inv[i].executed) = 2
           /\ Len(inv[j].executed) = 2
           /\ heap[inv[i].ref].domain = heap[inv[j].ref].domain)
             => inv[i].executed[2] = inv[j].executed[2]

\* C16 witness: two runs with different queries and different completion
\* texts resolved to the same domain and ran the same handler node
C16_Witness ==
    /\ inv[1].query # inv[2].query
    /\ inv[1].text = CAPITAL
    /\ inv[2].text = <<"c", "a", "p", "i", "t", "a", "l">>
    /\ inv[1].executed = <<n_orchestrator, n_capital>>
    /\ inv[2].executed = <<n_orchestrator, n_capital>>


\* C21: when the classifier's completion call fails, the failure leaves
\* Orchestrator.invoke uncaught: no node is recorded as executed, the domain
\* is not set (in particular not defaulted to REGULATORY), no result record
\* exists, the error reaches the /query endpoint's except clause, and the
\* caller is answered with HTTP 500.
C21_ClassifierFailurePropagates ==
    thrown.src = "classifier" =>
        /\ endpoint = "/query"
        /\ pc \in {"raised", "done"}
        /\ executed = <<>>
        /\ state.domain = <<>>
        /\ state.domain # REGULATORY
        /\ state.answer = <<>>
        /\ result = None
        /\ exc = thrown.e
        /\ exc \in LLMErrors
        /\ (pc = "raised" => ENABLED endpoint_except)
        /\ (pc = "done" => "status" \in DOMAIN http /\ http.status = 500)

\* C21 witness: an authentication failure of the classifier's call was
\* answered with a 500 carrying its message
C21_Witness ==
    /\ endpoint = "/query"
    /\ thrown = [src |-> "classifier",
                 e |-> [type |-> "AuthenticationError", msg |-> "Incorrect API key provided"]]
    /\ executed = <<>>
    /\ result = None
    /\ pc = "done"
    /\ http = [status |-> 500, detail |-> "Incorrect API key provided"]


\* a workflow run of /query is past the construction of its initial state
Initialised == endpoint = "/query" /\ pc \notin {"idle", "handler"}

\* what holds of the workflow state in every state of a run
FrameInvariant ==
    /\ Initialised =>
          /\ state.query = request.query
          /\ state.context = PyDict(EmptyDict)
          /\ state.messages = <<>>
    /\ (endpoint = "/query" /\ result # None) =>
          /\ result.query = request.query
          /\ result.context = PyDict(EmptyDict)

\* what each step of a run may change in the workflow state
FrameStep ==
    Initialised =>
        /\ (pc = "node" /\ node = n_orchestrator) =>
              state' = [state EXCEPT !.domain = state'.domain, !.next = state'.next]
        /\ (pc = "node" /\ node \in HandlerNodes) =>
              /\ state' = [state EXCEPT !.answer = state'.answer]
              /\ state'.answer # state.answer
        /\ pc # "node" => state' = state

\* C22: the classifier step changes only state.domain and state.next, each
\* handler step changes only state.answer, and no other step changes the
\* state; query, context and messages keep their initial values, so the
\* record Orchestrator.invoke returns has the submitted query and an empty
\* context.
C22_WorkflowFrame == []FrameInvariant /\ [][FrameStep]_vars

\* C22 witness: a run returned after both steps, with the query and the
\* empty context and messages it started with
C22_Witness ==
    /\ Initialised
    /\ pc = "respond"
    /\ request.query = <<"d", "r", "i", "f", "t">>
    /\ state.domain = FAIRNESS
    /\ state.next = n_fairness
    /\ state.answer = FairnessPrefix \o <<"d", "r", "i", "f", "t">>
    /\ state.messages = <<>>
    /\ result.query = <<"d", "r", "i", "f", "t">>
    /\ result.context = PyDict(EmptyDict)


\* the assessed metrics are None or an empty mapping
NoMetrics == metrics = None \/ DOMAIN metrics = {}

\* the assessed metrics are a non-empty mapping without ratios: the key
\* disparate_impact_ratios is missing or maps to an empty mapping
NoRatios ==
    /\ ~NoMetrics
    /\ \/ "disparate_impact_ratios" \notin DOMAIN metrics
       \/ DOMAIN metrics.disparate_impact_ratios = {}

\* C23: _assess_risk_level returns UNKNOWN exactly when its argument is None
\* or an empty mapping; for non-empty metrics whose disparate_impact_ratios
\* is missing or empty the minimum defaults to 1.0 and the result is LOW;
\* every call returns one of the five levels.
C23_UnknownOnlyWithoutMetrics ==
    pc = "risk_done" =>
        /\ risk_level \in {"UNKNOWN", "CRITICAL", "HIGH", "MEDIUM", "LOW"}
        /\ (risk_level = "UNKNOWN" <=> NoMetrics)
        /\ (NoRatios => risk_level = "LOW")

\* C23 witness: metrics naming a model and holding an empty ratios mapping
\* were assessed LOW
C23_Witness ==
    /\ pc = "risk_done"
    /\ metrics = [model |-> "consumer_credit_scorecard", disparate_impact_ratios |-> EmptyDict]
    /\ NoRatios
    /\ risk_level = "LOW"

====
